---- MODULE Spec2Model ----
(***************************************************************************)
(* Model of rsvg_internals/src/pattern.rs: the <pattern> paint server.     *)
(*                                                                         *)
(*   - NodePattern::resolve merges a chain of pattern nodes, linked by     *)
(*     xlink:href fallbacks, into one NodePattern;                         *)
(*   - NodePattern::set_pattern_on_draw_context renders the resolved       *)
(*     pattern to an offscreen tile and installs it as the cairo source.   *)
(*                                                                         *)
(* Option<T> is modelled as a set with at most one element: None is {},    *)
(* Some(v) is {v}.  The field vbox is an Option<Option<ViewBox>>, so it is *)
(* {} (unresolved), {{}} (resolved, no viewBox) or {{vb}}.                 *)
(***************************************************************************)
EXTENDS Integers, Sequences, FiniteSets, TLC

(***************************************************************************)
(* Bounds of the model.                                                    *)
(***************************************************************************)
\* Number of <pattern> nodes in the document.
NumNodes == 3

Nodes == 1..NumNodes

\* A fragment names a node by its id; this one names nothing that can be
\* acquired as a pattern (dangling reference, or a node of another type).
Dangling == NumNodes + 1

Fragments == Nodes \cup {Dangling}

\* The loop counter of resolve() is a ghost of the model; it saturates here.
IterCap == NumNodes + 3

(***************************************************************************)
(* Option helpers.                                                         *)
(***************************************************************************)
None == {}

Some(v) == {v}

\* Option::or
Or(a, b) == IF a # None THEN a ELSE b

\* Option::unwrap, on a value that is Some
Unwrap(o) == CHOOSE v \in o : TRUE

(***************************************************************************)
(* f64 values are modelled as exact rationals <<numerator, denominator>>   *)
(* in lowest terms with a positive denominator; the model's inputs keep    *)
(* them far from the range where f64 rounding matters.                     *)
(***************************************************************************)
Abs(a) == IF a < 0 THEN -a ELSE a

RECURSIVE GCD(_, _)
GCD(a, b) == IF b = 0 THEN a ELSE GCD(b, a % b)

\* A zero denominator stands for the non-finite values of f64: <<1, 0>> and
\* <<-1, 0>> are the infinities and <<0, 0>> is NaN.
Rat(n, d) ==
    LET g == GCD(Abs(n), Abs(d))
        sgn == IF d < 0 THEN -1 ELSE 1
    IN IF g = 0 THEN <<0, 0>> ELSE <<(sgn * n) \div g, (sgn * d) \div g>>

\* f64::from of an integer
R(n) == <<n, 1>>

RAdd(a, b) == Rat(a[1] * b[2] + b[1] * a[2], a[2] * b[2])

RSub(a, b) == Rat(a[1] * b[2] - b[1] * a[2], a[2] * b[2])

RMul(a, b) == Rat(a[1] * b[1], a[2] * b[2])

\* a / b, for b # 0
RDiv(a, b) == Rat(a[1] * b[2], a[2] * b[1])

RNeg(a) == <<-a[1], a[2]>>

RAbs(a) == <<Abs(a[1]), a[2]>>

RLt(a, b) == a[1] * b[2] < b[1] * a[2]

RMin(a, b) == IF RLt(b, a) THEN b ELSE a

RMax(a, b) == IF RLt(a, b) THEN b ELSE a

\* `as i32`: truncation toward zero
RTrunc(a) ==
    IF a[1] >= 0 THEN a[1] \div a[2] ELSE -((-a[1]) \div a[2])

\* Integer square root, exact on the squares the model produces.
ISqrt(v) == CHOOSE r \in 0..v : r * r <= v /\ (r + 1) * (r + 1) > v

\* f64::sqrt
RSqrt(a) == Rat(ISqrt(a[1]), ISqrt(a[2]))

\* |v| < f64::EPSILON: of the model's rationals only zero is that small.
BelowEpsilon(a) == a[1] = 0

\* ApproxEqCairo::approx_eq_cairo: equal up to cairo's fixed-point
\* resolution of 1/256.
approx_eq_cairo(a, b) == RLt(RAbs(RSub(a, b)), <<1, 256>>)

(***************************************************************************)
(* cairo::Matrix as <<xx, yx, xy, yy, x0, y0>>.                            *)
(***************************************************************************)
MatrixIdentity == <<R(1), R(0), R(0), R(1), R(0), R(0)>>

MatrixScaling(sx, sy) == <<sx, R(0), R(0), sy, R(0), R(0)>>

MatrixTranslation(tx, ty) == <<R(1), R(0), R(0), R(1), tx, ty>>

\* cairo::Matrix::multiply(a, b): a is applied first, then b.
MatrixMultiply(a, b) ==
    <<RAdd(RMul(a[1], b[1]), RMul(a[2], b[3])),
      RAdd(RMul(a[1], b[2]), RMul(a[2], b[4])),
      RAdd(RMul(a[3], b[1]), RMul(a[4], b[3])),
      RAdd(RMul(a[3], b[2]), RMul(a[4], b[4])),
      RAdd(RAdd(RMul(a[5], b[1]), RMul(a[6], b[3])), b[5]),
      RAdd(RAdd(RMul(a[5], b[2]), RMul(a[6], b[4])), b[6])>>

\* Matrix::translate and Matrix::scale apply the new transformation first.
MatrixTranslate(m, tx, ty) == MatrixMultiply(MatrixTranslation(tx, ty), m)

MatrixScale(m, sx, sy) == MatrixMultiply(MatrixScaling(sx, sy), m)

MatrixDet(m) == RSub(RMul(m[1], m[4]), RMul(m[2], m[3]))

\* Matrix::invert, for a matrix with a non-zero determinant
MatrixInvert(m) ==
    LET det == MatrixDet(m) IN
    <<RDiv(m[4], det),
      RNeg(RDiv(m[2], det)),
      RNeg(RDiv(m[3], det)),
      RDiv(m[1], det),
      RDiv(RSub(RMul(m[3], m[6]), RMul(m[4], m[5])), det),
      RDiv(RSub(RMul(m[2], m[5]), RMul(m[1], m[6])), det)>>

(***************************************************************************)
(* struct Common: the nine attribute fields.                               *)
(***************************************************************************)
Fields ==
    {"units", "content_units", "vbox", "preserve_aspect_ratio", "affine",
     "x", "y", "width", "height"}

\* The defaults that resolve_from_defaults() fills in.
DefaultValue(f) ==
    CASE f = "units"                 -> "ObjectBoundingBox"
      [] f = "content_units"         -> "UserSpaceOnUse"
      [] f = "vbox"                  -> None
      [] f = "preserve_aspect_ratio" -> "xMidYMid meet"
      [] f = "affine"                -> MatrixIdentity
      [] OTHER                       -> 0

\* The value that set_atts() stores in field f when node n's element carries
\* the attribute: each node writes its own values, so that the node a merged
\* value came from can be told from the value.
ParsedValue(f, n) ==
    CASE f = "units" ->
            IF n % 2 = 1 THEN "UserSpaceOnUse" ELSE "ObjectBoundingBox"
      [] f = "content_units" ->
            IF n % 2 = 1 THEN "ObjectBoundingBox" ELSE "UserSpaceOnUse"
      [] f = "vbox" ->
            Some([x |-> R(0), y |-> R(0), width |-> R(n), height |-> R(n)])
      [] f = "preserve_aspect_ratio" ->
            IF n % 2 = 1 THEN "none" ELSE "xMinYMin slice"
      [] f = "affine" -> MatrixScaling(R(n + 1), R(n + 1))
      [] OTHER -> n

\* The attribute sets an element of the document may carry.
AttrSets ==
    {{},
     {"units", "vbox", "x", "width"},
     {"content_units", "preserve_aspect_ratio", "affine", "y", "height"},
     Fields}

\* impl Default for NodePattern, then set_atts() for the attributes in atts
\* and the xlink:href in href (an Option<Fragment>).
set_atts(n, atts, href) ==
    [common   |-> [f \in Fields |->
                     IF f \in atts THEN Some(ParsedValue(f, n)) ELSE None],
     node     |-> None,
     fallback |-> href]

VARIABLES
    patterns,       \* node id -> its NodePattern (get_impl::<NodePattern>())
    has_children,   \* node id -> RsvgNode::has_children()
    pc,             \* position of the caller: "idle", "loop", "done", ...
    start,          \* Option: the `node` argument of the running resolve()
    result,         \* the local `result` of resolve()
    stack,          \* the local `stack` (NodeStack) of resolve()
    ret,            \* what resolve() returned
    iters,          \* ghost: loop bodies executed by resolve(), saturating
    last,           \* ghost: the branch the last loop body took
    draw_ctx,       \* the DrawingCtx: cairo contexts, surfaces, view boxes
    bbox,           \* the `bbox` argument of set_pattern_on_draw_context()
    tile,           \* the locals of set_pattern_on_draw_context()
    rret,           \* what set_pattern_on_draw_context() returned
    history         \* ghost: what the calls of resolve() so far returned

resolve_vars == <<start, stack, ret, iters, last, history>>

render_vars == <<draw_ctx, bbox, tile, rret>>

vars ==
    <<patterns, has_children, pc, start, result, stack, ret, iters, last,
      draw_ctx, bbox, tile, rret, history>>

(***************************************************************************)
(* NodePattern methods (impl NodePattern).                                 *)
(***************************************************************************)
children_are_resolved(self) ==
    IF self.node # None
        THEN has_children[Unwrap(self.node)]
        ELSE TRUE

\* is_resolved() as it would be without the check of the children.
is_resolved_AttributesOnly(self) ==
    /\ self.common.units # None
    /\ self.common.content_units # None
    /\ self.common.vbox # None
    /\ self.common.preserve_aspect_ratio # None
    /\ self.common.affine # None
    /\ self.common.x # None
    /\ self.common.y # None
    /\ self.common.width # None
    /\ self.common.height # None

is_resolved(self) ==
    /\ self.common.units # None
    /\ self.common.content_units # None
    /\ self.common.vbox # None
    /\ self.common.preserve_aspect_ratio # None
    /\ self.common.affine # None
    /\ self.common.x # None
    /\ self.common.y # None
    /\ self.common.width # None
    /\ self.common.height # None
    /\ children_are_resolved(self)

\* resolve_from_fallback() with the operands of or() exchanged for the
\* lengths: the fallback's x, y, width and height win.
resolve_from_fallback_FallbackWins(self, fallback) ==
    [common |->
        [units    |-> Or(self.common.units, fallback.common.units),
         content_units |->
             Or(self.common.content_units, fallback.common.content_units),
         vbox     |-> Or(self.common.vbox, fallback.common.vbox),
         preserve_aspect_ratio |->
             Or(self.common.preserve_aspect_ratio,
                fallback.common.preserve_aspect_ratio),
         affine   |-> Or(self.common.affine, fallback.common.affine),
         x        |-> Or(fallback.common.x, self.common.x),
         y        |-> Or(fallback.common.y, self.common.y),
         width    |-> Or(fallback.common.width, self.common.width),
         height   |-> Or(fallback.common.height, self.common.height)],
     node     |-> IF ~children_are_resolved(self)
                      THEN fallback.node
                      ELSE self.node,
     fallback |-> fallback.fallback]

\* resolve_from_fallback() taking the fallback's node whether or not self
\* has children.
resolve_from_fallback_NodeOfFallback(self, fallback) ==
    [common |->
        [units    |-> Or(self.common.units, fallback.common.units),
         content_units |->
             Or(self.common.content_units, fallback.common.content_units),
         vbox     |-> Or(self.common.vbox, fallback.common.vbox),
         preserve_aspect_ratio |->
             Or(self.common.preserve_aspect_ratio,
                fallback.common.preserve_aspect_ratio),
         affine   |-> Or(self.common.affine, fallback.common.affine),
         x        |-> Or(self.common.x, fallback.common.x),
         y        |-> Or(self.common.y, fallback.common.y),
         width    |-> Or(self.common.width, fallback.common.width),
         height   |-> Or(self.common.height, fallback.common.height)],
     node     |-> fallback.node,
     fallback |-> fallback.fallback]

resolve_from_fallback(self, fallback) ==
    [common |->
        [units    |-> Or(self.common.units, fallback.common.units),
         content_units |->
             Or(self.common.content_units, fallback.common.content_units),
         vbox     |-> Or(self.common.vbox, fallback.common.vbox),
         preserve_aspect_ratio |->
             Or(self.common.preserve_aspect_ratio,
                fallback.common.preserve_aspect_ratio),
         affine   |-> Or(self.common.affine, fallback.common.affine),
         x        |-> Or(self.common.x, fallback.common.x),
         y        |-> Or(self.common.y, fallback.common.y),
         width    |-> Or(self.common.width, fallback.common.width),
         height   |-> Or(self.common.height, fallback.common.height)],
     node     |-> IF ~children_are_resolved(self)
                      THEN fallback.node
                      ELSE self.node,
     fallback |-> fallback.fallback]

\* resolve_from_defaults() with the defaults of units and content_units
\* exchanged.
resolve_from_defaults_UnitsSwapped(self) ==
    [common |->
        [units    |-> Or(self.common.units,
                         Some(DefaultValue("content_units"))),
         content_units |->
             Or(self.common.content_units, Some(DefaultValue("units"))),
         vbox     |-> Or(self.common.vbox, Some(DefaultValue("vbox"))),
         preserve_aspect_ratio |->
             Or(self.common.preserve_aspect_ratio,
                Some(DefaultValue("preserve_aspect_ratio"))),
         affine   |-> Or(self.common.affine, Some(DefaultValue("affine"))),
         x        |-> Or(self.common.x, Some(DefaultValue("x"))),
         y        |-> Or(self.common.y, Some(DefaultValue("y"))),
         width    |-> Or(self.common.width, Some(DefaultValue("width"))),
         height   |-> Or(self.common.height, Some(DefaultValue("height")))],
     node     |-> self.node,
     fallback |-> None]

resolve_from_defaults(self) ==
    [common |->
        [units    |-> Or(self.common.units, Some(DefaultValue("units"))),
         content_units |->
             Or(self.common.content_units,
                Some(DefaultValue("content_units"))),
         vbox     |-> Or(self.common.vbox, Some(DefaultValue("vbox"))),
         preserve_aspect_ratio |->
             Or(self.common.preserve_aspect_ratio,
                Some(DefaultValue("preserve_aspect_ratio"))),
         affine   |-> Or(self.common.affine, Some(DefaultValue("affine"))),
         x        |-> Or(self.common.x, Some(DefaultValue("x"))),
         y        |-> Or(self.common.y, Some(DefaultValue("y"))),
         width    |-> Or(self.common.width, Some(DefaultValue("width"))),
         height   |-> Or(self.common.height, Some(DefaultValue("height")))],
     node     |-> self.node,
     fallback |-> None]

(***************************************************************************)
(* Collaborators of resolve().                                             *)
(***************************************************************************)
\* draw_ctx.acquired_nodes().get_node_of_type(fragment, NodeType::Pattern):
\* Some(node) when the fragment names a pattern node of the document.
get_node_of_type(fragment) ==
    IF fragment \in Nodes THEN Some(fragment) ELSE None

\* NodeStack::contains
StackContains(s, n) == \E i \in 1..Len(s) : s[i] = n

\* Result values of resolve()
RetPending == [tag |-> "pending", fragment |-> None]

RetOk == [tag |-> "Ok", fragment |-> None]

RetCircularReference(fragment) ==
    [tag |-> "CircularReference", fragment |-> Some(fragment)]

(***************************************************************************)
(* The DrawingCtx and the cairo objects it holds.                          *)
(***************************************************************************)
\* Ids of the cairo contexts: the caller's, and the offscreen tile's.
CallerCr == "caller"

TileCr == "tile"

\* The paint source the caller's context has before the call.
CallerSource == [kind |-> "caller"]

\* A DrawingCtx whose active cairo context is the caller's, with the current
\* transformation matrix m.
NewDrawingCtx(m) ==
    [cr              |-> CallerCr,
     matrix          |-> [c \in {CallerCr} |-> m],
     source          |-> [c \in {CallerCr} |-> CallerSource],
     surfaces        |-> <<>>,
     view_box_stack  |-> <<>>,
     drawn           |-> <<>>]

\* The locals of set_pattern_on_draw_context() before it runs.
NoTile ==
    [pw |-> 0, ph |-> 0, scwscale |-> R(0), schscale |-> R(0),
     affine |-> MatrixIdentity, caffine |-> MatrixIdentity,
     pushed |-> FALSE, cr_save |-> CallerCr, res |-> "none"]

\* Result values of set_pattern_on_draw_context()
RenderPending == [tag |-> "pending", value |-> FALSE, error |-> "none"]

RenderOk(b) == [tag |-> "Ok", value |-> b, error |-> "none"]

RenderErr(e) == [tag |-> "Err", value |-> FALSE, error |-> e]

RenderPanic == [tag |-> "panic", value |-> FALSE, error |-> "none"]

\* The errors that drawing the children may return.
RenderingErrors == {"CairoError", "InstancingLimit"}

(***************************************************************************)
(* The document.  resolve() reads only the nodes on the fallback chain of  *)
(* its starting node, so the documents are taken in chain form: nodes      *)
(* 1..len link to their successor, node len ends the chain (no href, a     *)
(* dangling href, or an href back into the chain), and nodes after len are *)
(* bare <pattern/> elements.  resolve() may start at any node.             *)
(***************************************************************************)
NodeKinds == [children : BOOLEAN, atts : AttrSets]

BareKind == [children |-> FALSE, atts |-> {}]

ChainHref(n, len, term) ==
    IF n < len THEN Some(n + 1)
    ELSE IF n = len THEN term
    ELSE None

\* The document is a chain whose nodes are of the given kinds.
InitDocument(kinds) ==
    \E len \in Nodes :
    \E kind \in [Nodes -> kinds] :
    \E term \in {None} \cup {Some(g) : g \in (1..len) \cup {Dangling}} :
       /\ \A n \in Nodes : n > len => kind[n] = BareKind
       /\ patterns =
             [n \in Nodes |->
                 set_atts(n, kind[n].atts, ChainHref(n, len, term))]
       /\ has_children = [n \in Nodes |-> kind[n].children]

\* Nothing has been resolved or rendered yet.
InitCaller ==
    /\ pc = "idle"
    /\ start = None
    /\ result = set_atts(1, {}, None)
    /\ stack = <<>>
    /\ ret = RetPending
    /\ iters = 0
    /\ last = "none"
    /\ draw_ctx = NewDrawingCtx(MatrixIdentity)
    /\ bbox = [rect |-> None]
    /\ tile = NoTile
    /\ rret = RenderPending
    /\ history = <<>>

Init == InitDocument(NodeKinds) /\ InitCaller

(***************************************************************************)
(* resolve(): one action per path through the function's steps.            *)
(***************************************************************************)
\* What a call of resolve() on node n gave its caller: the Result, and for
\* Ok the attributes and the content node of the value.
Outcome(n, r, value) ==
    [start |-> n,
     ret   |-> r,
     value |-> IF r.tag = "Ok"
                   THEN Some([common |-> value.common, node |-> value.node])
                   ELSE None]

Bump(i) == IF i < IterCap THEN i + 1 ELSE i

\* resolve() as it would start with the starting node on the stack.
ResolveBegin_StartOnStack(n) ==
    /\ pc = "idle"
    /\ start' = Some(n)
    /\ result' = [patterns[n] EXCEPT !.node = Some(n)]
    /\ stack' = <<n>>
    /\ pc' = "loop"
    /\ iters' = 0
    /\ last' = "begin"
    /\ UNCHANGED <<patterns, has_children, ret, render_vars, history>>

\* resolve() as it would start from the clone alone, its back-reference
\* left as the node stores it.
ResolveBegin_KeepNode(n) ==
    /\ pc = "idle"
    /\ start' = Some(n)
    /\ result' = patterns[n]
    /\ stack' = <<>>
    /\ pc' = "loop"
    /\ iters' = 0
    /\ last' = "begin"
    /\ UNCHANGED <<patterns, has_children, ret, render_vars, history>>

\* lines 101-104: clone the node's NodePattern, point it at the node, and
\* start with an empty stack.
ResolveBegin(n) ==
    /\ pc = "idle"
    /\ start' = Some(n)
    /\ result' = [patterns[n] EXCEPT !.node = Some(n)]
    /\ stack' = <<>>
    /\ pc' = "loop"
    /\ iters' = 0
    /\ last' = "begin"
    /\ UNCHANGED <<patterns, has_children, ret, render_vars, history>>

\* line 106 false, line 134: the loop ends and resolve() returns Ok(result).
ResolveReturnOk ==
    /\ pc = "loop"
    /\ is_resolved(result)
    /\ pc' = "done"
    /\ ret' = RetOk
    /\ history' = Append(history, Outcome(Unwrap(start), RetOk, result))
    /\ UNCHANGED <<patterns, has_children, start, result, stack, iters, last,
                   render_vars>>

\* The merge of lines 107-123 as it would be without the push of line 125.
ResolveFromFallback_NoPush ==
    /\ pc = "loop"
    /\ ~is_resolved(result)
    /\ result.fallback # None
    /\ LET acquired == get_node_of_type(Unwrap(result.fallback)) IN
       /\ acquired # None
       /\ LET a_node == Unwrap(acquired) IN
          /\ ~StackContains(stack, a_node)
          /\ patterns' = [patterns EXCEPT ![a_node].node = Some(a_node)]
          /\ result' = resolve_from_fallback(result, patterns'[a_node])
          /\ stack' = stack
    /\ iters' = Bump(iters)
    /\ last' = "fallback"
    /\ UNCHANGED <<has_children, pc, start, ret, render_vars, history>>

\* lines 107-125: the fallback is acquired and is not on the stack.
ResolveFromFallback ==
    /\ pc = "loop"
    /\ ~is_resolved(result)
    /\ result.fallback # None
    /\ LET acquired == get_node_of_type(Unwrap(result.fallback)) IN
       /\ acquired # None
       /\ LET a_node == Unwrap(acquired) IN
          /\ ~StackContains(stack, a_node)
          \* line 121 writes through the RefCell of the document's node
          /\ patterns' = [patterns EXCEPT ![a_node].node = Some(a_node)]
          /\ result' = resolve_from_fallback(result, patterns'[a_node])
          /\ stack' = Append(stack, a_node)
    /\ iters' = Bump(iters)
    /\ last' = "fallback"
    /\ UNCHANGED <<has_children, pc, start, ret, render_vars, history>>

\* The cycle test of lines 114-116 as it would be if it ran before the
\* loop guard of line 106.
ResolveCircular_Eager ==
    /\ pc = "loop"
    /\ result.fallback # None
    /\ LET acquired == get_node_of_type(Unwrap(result.fallback)) IN
       /\ acquired # None
       /\ StackContains(stack, Unwrap(acquired))
    /\ ret' = RetCircularReference(Unwrap(result.fallback))
    /\ history' =
          Append(history,
                 Outcome(Unwrap(start),
                         RetCircularReference(Unwrap(result.fallback)),
                         result))
    /\ pc' = "done"
    /\ iters' = Bump(iters)
    /\ last' = "circular"
    /\ UNCHANGED <<patterns, has_children, start, result, stack, render_vars>>

\* lines 114-116: the acquired node is already on the stack.
ResolveCircular ==
    /\ pc = "loop"
    /\ ~is_resolved(result)
    /\ result.fallback # None
    /\ LET acquired == get_node_of_type(Unwrap(result.fallback)) IN
       /\ acquired # None
       /\ StackContains(stack, Unwrap(acquired))
    /\ ret' = RetCircularReference(Unwrap(result.fallback))
    /\ history' =
          Append(history,
                 Outcome(Unwrap(start),
                         RetCircularReference(Unwrap(result.fallback)),
                         result))
    /\ pc' = "done"
    /\ iters' = Bump(iters)
    /\ last' = "circular"
    /\ UNCHANGED <<patterns, has_children, start, result, stack, render_vars>>

\* lines 126-128: the fallback cannot be acquired.
ResolveDangling ==
    /\ pc = "loop"
    /\ ~is_resolved(result)
    /\ result.fallback # None
    /\ get_node_of_type(Unwrap(result.fallback)) = None
    /\ result' = resolve_from_defaults(result)
    /\ iters' = Bump(iters)
    /\ last' = "defaults"
    /\ UNCHANGED <<patterns, has_children, pc, start, stack, ret,
                   render_vars, history>>

\* lines 129-131: there is no fallback.
ResolveNoFallback ==
    /\ pc = "loop"
    /\ ~is_resolved(result)
    /\ result.fallback = None
    /\ result' = resolve_from_defaults(result)
    /\ iters' = Bump(iters)
    /\ last' = "defaults"
    /\ UNCHANGED <<patterns, has_children, pc, start, stack, ret,
                   render_vars, history>>

Next ==
    \/ \E n \in Nodes : ResolveBegin(n)
    \/ ResolveReturnOk
    \/ ResolveFromFallback
    \/ ResolveCircular
    \/ ResolveDangling
    \/ ResolveNoFallback

Spec == Init /\ [][Next]_vars

(***************************************************************************)
(* Several calls of resolve() on one document.                             *)
(***************************************************************************)
\* Number of calls of resolve() that are explored.
MaxCalls == 3

\* The nodes of the documents resolved several times carry no attribute or
\* all of them.
RepeatKinds == [children : BOOLEAN, atts : {{}, Fields}]

RepeatInit == InitDocument(RepeatKinds) /\ InitCaller

\* resolve() has returned; its caller goes on and may call it again.
CallerContinues ==
    /\ pc = "done"
    /\ Len(history) < MaxCalls
    /\ pc' = "idle"
    /\ UNCHANGED <<patterns, has_children, result, resolve_vars, render_vars>>

RepeatNext == Next \/ CallerContinues

RepeatSpec == RepeatInit /\ [][RepeatNext]_vars

(***************************************************************************)
(* set_pattern_on_draw_context(): the geometry of the tile.                *)
(***************************************************************************)
\* Bounds of the inputs of set_pattern_on_draw_context().
\* Largest pattern width and height.
MaxLen == 2

\* Largest width and height of the bounding box.
MaxBBox == 2

\* The scale factors of the caller's matrix are 1/2, 2/2, .. MaxScale/2.
MaxScale == 3

\* Length::normalize, for a length given in user units
normalize(len) == R(len)

pattern_x(self) == normalize(Unwrap(self.common.x))

pattern_y(self) == normalize(Unwrap(self.common.y))

pattern_width(self) == normalize(Unwrap(self.common.width))

pattern_height(self) == normalize(Unwrap(self.common.height))

UnitsAreBBox(self) == Unwrap(self.common.units) = "ObjectBoundingBox"

\* lines 177-191
bbwscale(self, bb) ==
    IF UnitsAreBBox(self) THEN Unwrap(bb.rect).width ELSE R(1)

bbhscale(self, bb) ==
    IF UnitsAreBBox(self) THEN Unwrap(bb.rect).height ELSE R(1)

\* lines 193-198: m is the matrix of the active cairo context
taffine(self, m) == MatrixMultiply(Unwrap(self.common.affine), m)

device_scwscale(self, m) ==
    LET t == taffine(self, m) IN
    RSqrt(RAdd(RMul(t[1], t[1]), RMul(t[3], t[3])))

device_schscale(self, m) ==
    LET t == taffine(self, m) IN
    RSqrt(RAdd(RMul(t[2], t[2]), RMul(t[4], t[4])))

\* The pixel width as it would be if the conversion to i32 rounded up.
pw_Ceiling(self, bb, m) ==
    LET v == RMul(RMul(pattern_width(self), bbwscale(self, bb)),
                  device_scwscale(self, m))
    IN IF R(RTrunc(v)) = v THEN RTrunc(v) ELSE RTrunc(v) + 1

\* lines 200-204
pw(self, bb, m) ==
    RTrunc(RMul(RMul(pattern_width(self), bbwscale(self, bb)),
                device_scwscale(self, m)))

ph(self, bb, m) ==
    RTrunc(RMul(RMul(pattern_height(self), bbhscale(self, bb)),
                device_schscale(self, m)))

scaled_width(self, bb) == RMul(pattern_width(self), bbwscale(self, bb))

scaled_height(self, bb) == RMul(pattern_height(self), bbhscale(self, bb))

\* The condition of lines 206-210 without the tests of pw and ph.
TileIsDegenerate_NoPixelTest(self, bb, m) ==
    \/ BelowEpsilon(RAbs(scaled_width(self, bb)))
    \/ BelowEpsilon(RAbs(scaled_height(self, bb)))

\* lines 206-210
TileIsDegenerate(self, bb, m) ==
    \/ BelowEpsilon(RAbs(scaled_width(self, bb)))
    \/ BelowEpsilon(RAbs(scaled_height(self, bb)))
    \/ pw(self, bb, m) < 1
    \/ ph(self, bb, m) < 1

\* The horizontal scale as it would be without lines 214-215.
scwscale_DeviceScale(self, bb, m) == device_scwscale(self, m)

\* lines 214-215
scwscale(self, bb, m) == RDiv(R(pw(self, bb, m)), scaled_width(self, bb))

schscale(self, bb, m) == RDiv(R(ph(self, bb, m)), scaled_height(self, bb))

\* line 271
NeedsRescale(self, bb, m) ==
    \/ ~approx_eq_cairo(scwscale(self, bb, m), R(1))
    \/ ~approx_eq_cairo(schscale(self, bb, m), R(1))

\* lines 217-235: the pattern coordinate system
pattern_space(self, bb) ==
    LET translated ==
            IF UnitsAreBBox(self)
                THEN LET bbrect == Unwrap(bb.rect) IN
                     MatrixTranslate(MatrixIdentity,
                         RAdd(bbrect.x, RMul(pattern_x(self), bbrect.width)),
                         RAdd(bbrect.y, RMul(pattern_y(self), bbrect.height)))
                ELSE MatrixTranslate(MatrixIdentity,
                                     pattern_x(self), pattern_y(self))
    IN MatrixMultiply(translated, Unwrap(self.common.affine))

\* AspectRatio::compute(vbox, viewport): the rectangle <<x, y, w, h>> that
\* the view box is fitted to.
aspect_compute(par, vb, viewport) ==
    IF par = "none"
        THEN <<viewport.x, viewport.y, viewport.width, viewport.height>>
        ELSE LET w_factor == RDiv(viewport.width, vb.width)
                 h_factor == RDiv(viewport.height, vb.height)
                 factor == IF par = "xMinYMin slice"
                               THEN RMax(w_factor, h_factor)
                               ELSE RMin(w_factor, h_factor)
                 w == RMul(vb.width, factor)
                 h == RMul(vb.height, factor)
                 xpos == IF par = "xMinYMin slice"
                             THEN viewport.x
                             ELSE RAdd(viewport.x,
                                       RDiv(RSub(viewport.width, w), R(2)))
                 ypos == IF par = "xMinYMin slice"
                             THEN viewport.y
                             ELSE RAdd(viewport.y,
                                       RDiv(RSub(viewport.height, h), R(2)))
             IN <<xpos, ypos, w, h>>

ContentUnitsAreBBox(self) ==
    Unwrap(self.common.content_units) = "ObjectBoundingBox"

\* lines 240-269: the pattern contents coordinate system
content_space(self, bb) ==
    LET vbox == Unwrap(self.common.vbox) IN
    IF vbox # None
        THEN LET vb == Unwrap(vbox)
                 fit == aspect_compute(
                            Unwrap(self.common.preserve_aspect_ratio), vb,
                            [x |-> R(0), y |-> R(0),
                             width  |-> RMul(pattern_width(self),
                                             bbwscale(self, bb)),
                             height |-> RMul(pattern_height(self),
                                             bbhscale(self, bb))])
                 w == fit[3]
                 h == fit[4]
                 x == RSub(fit[1], RDiv(RMul(vb.x, w), vb.width))
                 y == RSub(fit[2], RDiv(RMul(vb.y, h), vb.height))
             IN <<RDiv(w, vb.width), R(0), R(0), RDiv(h, vb.height), x, y>>
    ELSE IF ContentUnitsAreBBox(self)
        THEN LET bbrect == Unwrap(bb.rect) IN
             MatrixScale(MatrixIdentity, bbrect.width, bbrect.height)
    ELSE MatrixIdentity

\* lines 240-269: the view box that stays pushed while the contents are
\* drawn, as an Option
content_view_box(self) ==
    LET vbox == Unwrap(self.common.vbox) IN
    IF vbox # None
        THEN Some(<<Unwrap(vbox).width, Unwrap(vbox).height>>)
    ELSE IF ContentUnitsAreBBox(self)
        THEN Some(<<R(1), R(1)>>)
    ELSE None

\* lines 271-280
caffine(self, bb, m) ==
    IF NeedsRescale(self, bb, m)
        THEN MatrixMultiply(content_space(self, bb),
                 MatrixScale(MatrixIdentity,
                             scwscale(self, bb, m), schscale(self, bb, m)))
        ELSE content_space(self, bb)

affine(self, bb, m) ==
    IF NeedsRescale(self, bb, m)
        THEN MatrixMultiply(
                 MatrixScale(MatrixIdentity,
                             RDiv(R(1), scwscale(self, bb, m)),
                             RDiv(R(1), schscale(self, bb, m))),
                 pattern_space(self, bb))
        ELSE pattern_space(self, bb)

\* bbox.rect.unwrap() at lines 182 and 222 panics.
UnwrapOfRectPanics(self, bb) == UnitsAreBBox(self) /\ bb.rect = None

\* bbox.rect.unwrap() at line 260 panics.
UnwrapOfContentRectPanics(self, bb) ==
    /\ Unwrap(self.common.vbox) = None
    /\ ContentUnitsAreBBox(self)
    /\ bb.rect = None

(***************************************************************************)
(* set_pattern_on_draw_context(): one action per stretch of the function   *)
(* between two points where the drawing context can be observed.  It is    *)
(* called on what resolve() returned.                                      *)
(***************************************************************************)
ActiveMatrix == draw_ctx.matrix[draw_ctx.cr]

RenderCalled == pc = "done" /\ ret.tag = "Ok"

\* line 146: the assertion fails; lines 182 and 260: unwrap() of an absent
\* bounding box.  The view box pushed at line 162 is popped when `params`
\* is dropped, before the panic.
RenderPanics ==
    /\ RenderCalled
    /\ \/ ~is_resolved(result)
       \/ /\ is_resolved(result)
          /\ result.node # None
          /\ \/ UnwrapOfRectPanics(result, bbox)
             \/ /\ ~UnwrapOfRectPanics(result, bbox)
                /\ ~TileIsDegenerate(result, bbox, ActiveMatrix)
                /\ UnwrapOfContentRectPanics(result, bbox)
    /\ pc' = "panicked"
    /\ rret' = RenderPanic
    /\ UNCHANGED <<patterns, has_children, result, resolve_vars,
                   draw_ctx, bbox, tile>>

\* lines 146-152: no node in the chain had children.
RenderEmpty ==
    /\ RenderCalled
    /\ is_resolved(result)
    /\ result.node = None
    /\ pc' = "rendered"
    /\ rret' = RenderOk(FALSE)
    /\ UNCHANGED <<patterns, has_children, result, resolve_vars,
                   draw_ctx, bbox, tile>>

\* lines 154-212: the tile is degenerate.  The view box pushed at line 162
\* is popped at line 173, so the drawing context is as before.
RenderDegenerate ==
    /\ RenderCalled
    /\ is_resolved(result)
    /\ result.node # None
    /\ ~UnwrapOfRectPanics(result, bbox)
    /\ TileIsDegenerate(result, bbox, ActiveMatrix)
    /\ pc' = "rendered"
    /\ rret' = RenderOk(FALSE)
    /\ UNCHANGED <<patterns, has_children, result, resolve_vars,
                   draw_ctx, bbox, tile>>

\* lines 154-302: the geometry is computed, the offscreen surface and its
\* context are created, and drawing is redirected to it.
RenderRedirect ==
    /\ RenderCalled
    /\ is_resolved(result)
    /\ result.node # None
    /\ ~UnwrapOfRectPanics(result, bbox)
    /\ ~TileIsDegenerate(result, bbox, ActiveMatrix)
    /\ ~UnwrapOfContentRectPanics(result, bbox)
    /\ LET m == ActiveMatrix
           view_box == content_view_box(result)
       IN
       /\ tile' = [pw       |-> pw(result, bbox, m),
                   ph       |-> ph(result, bbox, m),
                   scwscale |-> scwscale(result, bbox, m),
                   schscale |-> schscale(result, bbox, m),
                   affine   |-> affine(result, bbox, m),
                   caffine  |-> caffine(result, bbox, m),
                   pushed   |-> view_box # None,
                   cr_save  |-> draw_ctx.cr,
                   res      |-> "none"]
       /\ draw_ctx' =
             [cr       |-> TileCr,
              matrix   |-> [c \in {CallerCr, TileCr} |->
                               IF c = TileCr
                                   THEN caffine(result, bbox, m)
                                   ELSE draw_ctx.matrix[c]],
              source   |-> [c \in {CallerCr, TileCr} |->
                               IF c = TileCr
                                   THEN [kind |-> "default"]
                                   ELSE draw_ctx.source[c]],
              surfaces |-> Append(draw_ctx.surfaces,
                                  [width  |-> pw(result, bbox, m),
                                   height |-> ph(result, bbox, m)]),
              view_box_stack |->
                  IF view_box # None
                      THEN Append(draw_ctx.view_box_stack, Unwrap(view_box))
                      ELSE draw_ctx.view_box_stack,
              drawn    |-> draw_ctx.drawn]
    /\ pc' = "redirected"
    /\ UNCHANGED <<patterns, has_children, result, resolve_vars, bbox, rret>>

\* lines 304-306: with_discrete_layer() draws the children of the content
\* node on the active context and returns Ok or a RenderingError.
RenderDrawChildren(r) ==
    /\ pc = "redirected"
    /\ tile' = [tile EXCEPT !.res = r]
    /\ draw_ctx' =
          [draw_ctx EXCEPT
              !.drawn = Append(@, [cr   |-> draw_ctx.cr,
                                   node |-> Unwrap(result.node)])]
    /\ pc' = "drawn"
    /\ UNCHANGED <<patterns, has_children, result, resolve_vars, bbox, rret>>

\* The SurfacePattern of lines 314-321.
surface_pattern ==
    [kind    |-> "surface",
     surface |-> Len(draw_ctx.surfaces),
     extend  |-> "Repeat",
     matrix  |-> MatrixInvert(tile.affine),
     filter  |-> "Best"]

\* The view box stack after `_params` is dropped at the end of the function.
PopViewBox ==
    IF tile.pushed
        THEN SubSeq(draw_ctx.view_box_stack, 1,
                    Len(draw_ctx.view_box_stack) - 1)
        ELSE draw_ctx.view_box_stack

\* Lines 310-325 as they would be with the error of the children returned
\* first (`res?` before the cairo context is restored).
RenderRestore_ErrorFirst ==
    /\ pc = "drawn"
    /\ IF tile.res = "Ok"
           THEN /\ draw_ctx' =
                      [draw_ctx EXCEPT
                          !.cr = tile.cr_save,
                          !.source[tile.cr_save] = surface_pattern,
                          !.view_box_stack = PopViewBox]
                /\ rret' = RenderOk(TRUE)
           ELSE /\ draw_ctx' = [draw_ctx EXCEPT !.view_box_stack = PopViewBox]
                /\ rret' = RenderErr(tile.res)
    /\ pc' = "rendered"
    /\ UNCHANGED <<patterns, has_children, result, resolve_vars, bbox, tile>>

\* lines 310-325: the caller's context is made active again, the tile is
\* set as its source, and the result of drawing the children is returned.
RenderRestore ==
    /\ pc = "drawn"
    /\ draw_ctx' =
          [draw_ctx EXCEPT
              !.cr = tile.cr_save,
              !.source[tile.cr_save] = surface_pattern,
              !.view_box_stack = PopViewBox]
    /\ rret' = IF tile.res = "Ok"
                   THEN RenderOk(TRUE)
                   ELSE RenderErr(tile.res)
    /\ pc' = "rendered"
    /\ UNCHANGED <<patterns, has_children, result, resolve_vars, bbox, tile>>

(***************************************************************************)
(* The calls of set_pattern_on_draw_context() that are explored: a         *)
(* resolved pattern, a bounding box and the caller's matrix.               *)
(***************************************************************************)
\* The view box of the patterns that have one.
TestViewBox == [x |-> R(1), y |-> R(0), width |-> R(2), height |-> R(1)]

\* vbox, preserveAspectRatio, patternContentUnits and patternTransform (a
\* scale by k) of the explored patterns.
ContentFrames ==
    {[vbox |-> Some(TestViewBox), par |-> "xMidYMid meet",
      content_units |-> "UserSpaceOnUse", k |-> 1],
     [vbox |-> Some(TestViewBox), par |-> "none",
      content_units |-> "ObjectBoundingBox", k |-> 2],
     [vbox |-> None, par |-> "xMidYMid meet",
      content_units |-> "ObjectBoundingBox", k |-> 1],
     [vbox |-> None, par |-> "xMidYMid meet",
      content_units |-> "UserSpaceOnUse", k |-> 2]}

\* The attributes of the explored patterns.
ResolvedCommons ==
    {[units    |-> Some(u),
      content_units |-> Some(frame.content_units),
      vbox     |-> Some(frame.vbox),
      preserve_aspect_ratio |-> Some(frame.par),
      affine   |-> Some(MatrixScaling(R(frame.k), R(frame.k))),
      x        |-> Some(1),
      y        |-> Some(2),
      width    |-> Some(w),
      height   |-> Some(h)] :
        u \in {"ObjectBoundingBox", "UserSpaceOnUse"},
        frame \in ContentFrames,
        w \in 0..MaxLen,
        h \in 0..MaxLen}

\* The bounding boxes: empty, or a rectangle at (1, 1).
BBoxes ==
    {[rect |-> None]} \cup
    {[rect |-> Some([x |-> R(1), y |-> R(1),
                     width |-> R(w), height |-> R(h)])] :
        w \in 0..MaxBBox, h \in 0..MaxBBox}

\* The matrices of the caller's context: a scale, or a scale followed by a
\* quarter turn.
CallerMatrices ==
    {MatrixScaling(Rat(i, 2), Rat(j, 2)) : i \in 1..MaxScale, j \in 1..MaxScale}
    \cup
    {<<R(0), Rat(i, 2), Rat(-i, 2), R(0), R(0), R(0)>> : i \in 1..MaxScale}

\* A pattern of 10 x 10 user units without patternTransform and view box,
\* painted under a scale of 3.33.
ExampleCommon ==
    [units    |-> Some("UserSpaceOnUse"),
     content_units |-> Some("UserSpaceOnUse"),
     vbox     |-> Some(None),
     preserve_aspect_ratio |-> Some("xMidYMid meet"),
     affine   |-> Some(MatrixIdentity),
     x        |-> Some(1),
     y        |-> Some(2),
     width    |-> Some(10),
     height   |-> Some(10)]

ExampleMatrix == MatrixScaling(Rat(333, 100), Rat(333, 100))

\* set_pattern_on_draw_context() is about to run on the NodePattern that
\* resolve() returned for node 1, which has children and carries all its
\* attributes, or on the empty pattern that the unit test builds,
\* NodePattern::default().resolve_from_defaults().
RenderInit ==
    /\ \/ \E c \in ResolvedCommons \cup {ExampleCommon} :
            /\ patterns =
                  [n \in Nodes |->
                      IF n = 1
                          THEN [common |-> c, node |-> None,
                                fallback |-> None]
                          ELSE set_atts(n, {}, None)]
            /\ has_children = [n \in Nodes |-> n = 1]
            /\ start = Some(1)
            /\ result = [common |-> c, node |-> Some(1), fallback |-> None]
            /\ last = "begin"
       \/ /\ patterns = [n \in Nodes |-> set_atts(n, {}, None)]
          /\ has_children = [n \in Nodes |-> FALSE]
          /\ start = None
          /\ result = resolve_from_defaults(set_atts(1, {}, None))
          /\ last = "defaults"
    /\ pc = "done"
    /\ stack = <<>>
    /\ ret = RetOk
    /\ iters = 0
    /\ \E m \in CallerMatrices \cup {ExampleMatrix} :
          /\ draw_ctx = NewDrawingCtx(m)
          /\ m = ExampleMatrix <=> result.common = ExampleCommon
    /\ bbox \in BBoxes
    /\ tile = NoTile
    /\ rret = RenderPending
    /\ history = <<>>

RenderNext ==
    \/ RenderPanics
    \/ RenderEmpty
    \/ RenderDegenerate
    \/ RenderRedirect
    \/ \E r \in {"Ok"} \cup RenderingErrors : RenderDrawChildren(r)
    \/ RenderRestore

RenderSpec == RenderInit /\ [][RenderNext]_vars

(***************************************************************************)
(* The fallback chain of a node, as the document defines it.               *)
(***************************************************************************)
\* The node that n's xlink:href acquires, as an Option.
NextOf(n) ==
    IF patterns[n].fallback = None
        THEN None
        ELSE get_node_of_type(Unwrap(patterns[n].fallback))

RECURSIVE Walk(_)
\* Follows the hrefs from the last node of seq until the chain ends or
\* comes back to a node that was already acquired (seq[1] is the starting
\* node, which is not acquired).
Walk(seq) ==
    LET nxt == NextOf(seq[Len(seq)]) IN
    IF nxt = None \/ (\E i \in 2..Len(seq) : seq[i] = Unwrap(nxt))
        THEN seq
        ELSE Walk(Append(seq, Unwrap(nxt)))

FallbackChain(n) == Walk(<<n>>)

\* The chain ends (no href, or a dangling one) without coming back.
ChainIsAcyclic(n) ==
    LET chain == FallbackChain(n) IN
    /\ NextOf(chain[Len(chain)]) = None
    /\ \A i \in 2..Len(chain) : chain[i] # n

\* Index in the chain of the first node that has children, 0 when none has.
FirstWithChildren(chain) ==
    IF \E i \in 1..Len(chain) : has_children[chain[i]]
        THEN CHOOSE i \in 1..Len(chain) :
                /\ has_children[chain[i]]
                /\ \A j \in 1..(i - 1) : ~has_children[chain[j]]
        ELSE 0

\* Index in the chain, after the starting node, of the first node that sets
\* field f; 0 when none does.
NearestSetter(chain, f) ==
    IF \E i \in 2..Len(chain) : patterns[chain[i]].common[f] # None
        THEN CHOOSE i \in 2..Len(chain) :
                /\ patterns[chain[i]].common[f] # None
                /\ \A j \in 2..(i - 1) : patterns[chain[j]].common[f] = None
        ELSE 0

Started == start # None

StartNode == Unwrap(start)

ReturnedOk == pc = "done" /\ ret.tag = "Ok"

AllFieldsSet(p) == \A f \in Fields : p.common[f] # None

(***************************************************************************)
(* C1.  Termination of resolve().                                          *)
(***************************************************************************)
\* C1: the loop of resolve() ends after at most (number of pattern nodes
\* + 1) iterations, and after at most N + 1 iterations when the chain of the
\* starting node is acyclic with N links.
C1_LoopBounded ==
    Started =>
        /\ iters <= NumNodes + 1
        /\ ChainIsAcyclic(StartNode) =>
              iters <= (Len(FallbackChain(StartNode)) - 1) + 1

(***************************************************************************)
(* C2.  The chain A -> B -> A.                                             *)
(***************************************************************************)
\* start is A, A's href acquires B # A, and B's href acquires A.
ChainIsABA ==
    /\ Started
    /\ NextOf(StartNode) # None
    /\ Unwrap(NextOf(StartNode)) # StartNode
    /\ NextOf(Unwrap(NextOf(StartNode))) = Some(StartNode)

NodeB == Unwrap(NextOf(StartNode))

\* A and B together set every attribute, and one of them has children.
MergeOfABIsResolved ==
    /\ \A f \in Fields :
          \/ patterns[StartNode].common[f] # None
          \/ patterns[NodeB].common[f] # None
    /\ has_children[StartNode] \/ has_children[NodeB]

\* C2 as stated: on a chain A -> B -> A resolve() always ends with
\* CircularReference naming B, never with Ok.
C2_AlwaysCircular ==
    (ChainIsABA /\ pc = "done") =>
        ret = RetCircularReference(NodeB)

\* C2 amended: on a chain A -> B -> A resolve() ends within three loop
\* bodies; it returns CircularReference carrying the fragment that names B,
\* raised when B is acquired the second time (B and A are on the stack),
\* unless A and B together set every attribute and one of them has children,
\* in which case it returns Ok.
C2_CircularUnlessResolved ==
    ChainIsABA =>
        /\ iters <= 3
        /\ pc = "done" =>
              IF MergeOfABIsResolved
                  THEN ret = RetOk
                  ELSE /\ ret = RetCircularReference(
                                   Unwrap(patterns[StartNode].fallback))
                       /\ stack = <<NodeB, StartNode>>
                       /\ iters = 3

C2_Witness ==
    /\ ChainIsABA
    /\ pc = "done"
    /\ ret.tag = "CircularReference"
    /\ ret.fragment = Some(NodeB)
    /\ stack = <<NodeB, StartNode>>

(***************************************************************************)
(* C3.  Defaults closure.                                                  *)
(***************************************************************************)
\* C3: what resolve_from_defaults() returns satisfies is_resolved(); for a
\* starting node with no attribute and no href it holds the defaults.
C3_DefaultsClosure ==
    (pc = "loop" /\ last = "defaults") =>
        /\ is_resolved(result)
        /\ (/\ patterns[StartNode].fallback = None
            /\ \A f \in Fields : patterns[StartNode].common[f] = None)
           => \A f \in Fields : result.common[f] = Some(DefaultValue(f))

(***************************************************************************)
(* C4.  Override precedence.                                               *)
(***************************************************************************)
\* C4: a field that the starting node sets has the starting node's value in
\* result after every merge step, and so in what resolve() returns.
C4_OverridePrecedence ==
    Started =>
        \A f \in Fields :
            patterns[StartNode].common[f] # None =>
                result.common[f] = patterns[StartNode].common[f]

\* resolve() returned Ok after two merges, and a node of the chain sets a
\* field of the starting node to another value.
C4_Witness ==
    /\ ReturnedOk
    /\ Len(stack) >= 2
    /\ \E f \in Fields :
          /\ patterns[StartNode].common[f] # None
          /\ patterns[stack[1]].common[f] # None
          /\ patterns[stack[1]].common[f] # patterns[StartNode].common[f]
          /\ result.common[f] = patterns[StartNode].common[f]

(***************************************************************************)
(* C5.  Fallback fill.                                                     *)
(***************************************************************************)
\* C5: when resolve() returns Ok, a field unset on the starting node has the
\* value of the nearest node of the fallback chain that sets it, and the
\* default value when no node of the chain sets it.
C5_FallbackFill ==
    ReturnedOk =>
        LET chain == FallbackChain(StartNode) IN
        \A f \in Fields :
            patterns[StartNode].common[f] = None =>
                LET i == NearestSetter(chain, f) IN
                result.common[f] =
                    IF i # 0 THEN patterns[chain[i]].common[f]
                             ELSE Some(DefaultValue(f))

\* resolve() returned Ok after two merges and the defaults: a field unset
\* on the starting node is set by its fallback and, to another value, by the
\* fallback's fallback, and result holds the nearer one; another field, which
\* no node of the chain sets, holds its default.
C5_Witness ==
    /\ ReturnedOk
    /\ Len(stack) >= 2
    /\ last = "defaults"
    /\ \E f \in Fields :
          /\ patterns[StartNode].common[f] = None
          /\ patterns[stack[1]].common[f] # None
          /\ patterns[stack[2]].common[f] # None
          /\ patterns[stack[2]].common[f] # patterns[stack[1]].common[f]
          /\ result.common[f] = patterns[stack[1]].common[f]
    /\ \E f \in Fields :
          /\ patterns[StartNode].common[f] = None
          /\ NearestSetter(FallbackChain(StartNode), f) = 0
          /\ result.common[f] = Some(DefaultValue(f))

(***************************************************************************)
(* C6.  Content inheritance.                                               *)
(***************************************************************************)
\* C6: when resolve() returns Ok, result.node is the first node of the
\* chain (the starting node first) that has children.
C6_ContentInheritance ==
    ReturnedOk =>
        LET chain == FallbackChain(StartNode)
            i == FirstWithChildren(chain)
        IN /\ i # 0
           /\ result.node = Some(chain[i])

\* resolve() returned Ok with the content of the second fallback: neither
\* the starting node nor its fallback has children.
C6_Witness ==
    /\ ReturnedOk
    /\ Len(stack) >= 2
    /\ ~has_children[StartNode]
    /\ ~has_children[stack[1]]
    /\ has_children[stack[2]]
    /\ result.node = Some(stack[2])

C8_OkIsResolved ==
    ReturnedOk =>
        /\ \A f \in Fields : result.common[f] # None
        /\ result.node # None => has_children[Unwrap(result.node)]
        /\ is_resolved(result)

\* resolve() returned Ok after merging a fallback and filling in defaults.
C8_Witness ==
    /\ ReturnedOk
    /\ Len(stack) >= 1
    /\ last = "defaults"
    /\ AllFieldsSet(result)

(***************************************************************************)
(* C9.  Degenerate tile.                                                   *)
(***************************************************************************)
\* The cases of C9: a zero width or height of the pattern, a zero width or
\* height of the bounding box under ObjectBoundingBox units, or a pixel size
\* that truncates to less than 1.
C9_Case ==
    /\ UnitsAreBBox(result) => bbox.rect # None
    /\ \/ Unwrap(result.common.width) = 0
       \/ Unwrap(result.common.height) = 0
       \/ /\ UnitsAreBBox(result)
          /\ \/ Unwrap(bbox.rect).width = R(0)
             \/ Unwrap(bbox.rect).height = R(0)
       \/ pw(result, bbox, ActiveMatrix) < 1
       \/ ph(result, bbox, ActiveMatrix) < 1

\* C9: called on a pattern with a content node whose tile is degenerate,
\* set_pattern_on_draw_context() returns Ok(false) and leaves the drawing
\* context as it was: no source installed, no surface created, the active
\* cairo context and its matrix unchanged.
C9_DegenerateTile ==
    [][(RenderCalled /\ result.node # None /\ C9_Case) =>
           /\ pc' = "rendered"
           /\ rret' = RenderOk(FALSE)
           /\ draw_ctx' = draw_ctx]_vars

\* The call returned Ok(false) for a pattern and a bounding box of non-zero
\* size whose tile is smaller than a pixel.
C9_Witness ==
    /\ pc = "rendered"
    /\ rret = RenderOk(FALSE)
    /\ result.node # None
    /\ Unwrap(result.common.width) > 0
    /\ Unwrap(result.common.height) > 0
    /\ bbox.rect # None
    /\ Unwrap(bbox.rect).width # R(0)
    /\ Unwrap(bbox.rect).height # R(0)
    /\ \/ pw(result, bbox, ActiveMatrix) < 1
       \/ ph(result, bbox, ActiveMatrix) < 1
    /\ draw_ctx.surfaces = <<>>
    /\ draw_ctx.cr = CallerCr
    /\ draw_ctx.source[CallerCr] = CallerSource

(***************************************************************************)
(* C10.  Save, redirect, restore.                                          *)
(***************************************************************************)
\* C10: whenever set_pattern_on_draw_context() has ended, by a return or by
\* a panic, the active cairo context is the caller's, and an error of the
\* children is the error returned.
C10_ContextRestored ==
    pc \in {"rendered", "panicked"} =>
        /\ draw_ctx.cr = CallerCr
        /\ tile.res \in RenderingErrors => rret = RenderErr(tile.res)

\* Drawing the children on the tile's context failed, and the call returned
\* that error with the caller's context active.
C10_Witness ==
    /\ pc = "rendered"
    /\ tile.res \in RenderingErrors
    /\ rret = RenderErr(tile.res)
    /\ Len(draw_ctx.drawn) = 1
    /\ draw_ctx.drawn[1].cr = TileCr
    /\ draw_ctx.cr = CallerCr

(***************************************************************************)
(* C11.  A paint source is installed exactly on Ok(true).                  *)
(***************************************************************************)
\* C11: when set_pattern_on_draw_context() has ended, the caller's context
\* has a new paint source if and only if the call returned Ok(true); after
\* Ok(false), an error or a panic it has the source it had before the call.
C11_SourceIffOkTrue ==
    pc \in {"rendered", "panicked"} =>
        (draw_ctx.source[CallerCr] # CallerSource <=> rret = RenderOk(TRUE))

(***************************************************************************)
(* C12.  resolve() does not mutate the document.                           *)
(***************************************************************************)
\* C12: no step of resolve() changes a node of the document: attributes,
\* fallback and stored back-reference of every node stay as they were.
C12_NodesNotMutated ==
    [][pc = "loop" => patterns' = patterns]_vars

(***************************************************************************)
(* C13.  resolve() is a function of the document.                          *)
(***************************************************************************)
\* C13: two calls of resolve() on the same node return the same outcome
\* (the same attributes and content node, or the same CircularReference),
\* whatever was resolved between them.
C13_SameOutcome ==
    \A i, j \in 1..Len(history) :
        history[i].start = history[j].start =>
            /\ history[i].ret = history[j].ret
            /\ history[i].value = history[j].value

\* A node was resolved, then another node whose chain acquires the first
\* one (which writes the first node's back-reference), then the first node
\* again, with Ok both times.
C13_Witness ==
    /\ Len(history) = 3
    /\ history[1].start = history[3].start
    /\ history[2].start # history[1].start
    /\ patterns[history[1].start].node # None
    /\ history[1].ret = RetOk
    /\ history[3].ret = RetOk
    /\ history[3].value = history[1].value

(***************************************************************************)
(* C14.  A fallback that cannot be acquired.                               *)
(***************************************************************************)
\* The pending fallback of the running result names no pattern node.
FallbackIsDangling ==
    /\ pc = "loop"
    /\ ~is_resolved(result)
    /\ result.fallback # None
    /\ get_node_of_type(Unwrap(result.fallback)) = None

\* C14: when the pending fallback cannot be acquired, the iteration fills
\* the unset fields with the defaults, keeps the set fields and the content
\* candidate, and leaves the result resolved, so that the loop ends and
\* resolve() returns Ok next; resolve() returns nothing but Ok or
\* CircularReference, and never CircularReference of a dangling reference.
C14_DanglingIsNoFallback ==
    [][/\ FallbackIsDangling =>
            /\ \A f \in Fields :
                  result'.common[f] =
                      Or(result.common[f], Some(DefaultValue(f)))
            /\ result'.node = result.node
            /\ is_resolved(result')
            /\ pc' = "loop"
       /\ pc' = "done" =>
            /\ ret'.tag \in {"Ok", "CircularReference"}
            /\ ret'.tag = "CircularReference" =>
                  Unwrap(ret'.fragment) \in Nodes
      ]_vars

(***************************************************************************)
(* C15.  The offscreen surface is never degenerate.                        *)
(***************************************************************************)
\* width * bbwscale * scale_x and height * bbhscale * scale_y, with the
\* scales of the pattern's transformation under the caller's matrix.
DeviceWidth ==
    RMul(RMul(normalize(Unwrap(result.common.width)), bbwscale(result, bbox)),
         device_scwscale(result, draw_ctx.matrix[CallerCr]))

DeviceHeight ==
    RMul(RMul(normalize(Unwrap(result.common.height)), bbhscale(result, bbox)),
         device_schscale(result, draw_ctx.matrix[CallerCr]))

\* n is v truncated toward zero, for v >= 0.
IsTruncationOf(n, v) == ~RLt(v, R(n)) /\ RLt(v, R(n + 1))

\* C15: every offscreen surface that set_pattern_on_draw_context() created
\* has a pixel size of at least 1 x 1, the logical scaled width and height
\* are not zero, and the pixel sizes are the truncations toward zero of
\* width * bbwscale * scale_x and height * bbhscale * scale_y.
C15_NoDegenerateTile ==
    \A i \in 1..Len(draw_ctx.surfaces) :
        LET surface == draw_ctx.surfaces[i] IN
        /\ surface.width >= 1
        /\ surface.height >= 1
        /\ scaled_width(result, bbox) # R(0)
        /\ scaled_height(result, bbox) # R(0)
        /\ IsTruncationOf(surface.width, DeviceWidth)
        /\ IsTruncationOf(surface.height, DeviceHeight)

\* A surface was created whose width lost a fraction of a pixel to the
\* truncation.
C15_Witness ==
    /\ pc = "redirected"
    /\ Len(draw_ctx.surfaces) = 1
    /\ draw_ctx.surfaces[1].width >= 1
    /\ R(draw_ctx.surfaces[1].width) # DeviceWidth
    /\ draw_ctx.surfaces[1].height >= 1
    /\ UnitsAreBBox(result)

(***************************************************************************)
(* C16.  Pixel quantization.                                               *)
(***************************************************************************)
\* set_pattern_on_draw_context() got past line 215 and created the tile.
TileCreated == pc \in {"redirected", "drawn", "rendered"} /\ tile # NoTile

\* A re-quantized scale is at least cairo's resolution away from 1.
ScalesDifferFromOne ==
    \/ ~RLt(RAbs(RSub(tile.scwscale, R(1))), <<1, 256>>)
    \/ ~RLt(RAbs(RSub(tile.schscale, R(1))), <<1, 256>>)

ReturnedCircular == pc = "done" /\ ret.tag = "CircularReference"

\* The starting node's href names the starting node.
ChainIsSelfReference == Started /\ NextOf(StartNode) = Some(StartNode)

\* The starting node and the nodes acquired before one is acquired again set
\* every attribute between them, and one of them has children.
ChainCoversPattern ==
    LET chain == FallbackChain(StartNode) IN
    /\ \A f \in Fields :
          \E i \in 1..Len(chain) : patterns[chain[i]].common[f] # None
    /\ \E i \in 1..Len(chain) : has_children[chain[i]]

\* C17: resolve() returns CircularReference only with a result that is not
\* resolved and whose pending fallback acquires a node on the stack, and
\* never on a chain without a cycle; the stack is empty when the loop is
\* entered, so a node whose href names itself is merged with itself once
\* and the error that follows carries that href; on a chain with a cycle
\* resolve() returns Ok when the nodes of the chain set every attribute and
\* one has children, and CircularReference otherwise.
C17_CircularOnlyWhenUnresolved ==
    /\ ReturnedCircular =>
          /\ ~is_resolved(result)
          /\ result.fallback # None
          /\ ret.fragment = result.fallback
          /\ get_node_of_type(Unwrap(result.fallback)) # None
          /\ \E i \in 1..Len(stack) :
                stack[i] = Unwrap(get_node_of_type(Unwrap(result.fallback)))
          /\ ~ChainIsAcyclic(StartNode)
    /\ (pc = "loop" /\ last = "begin") => stack = <<>>
    /\ (ChainIsSelfReference /\ ReturnedCircular) =>
          /\ stack = <<StartNode>>
          /\ iters = 2
          /\ ret.fragment = patterns[StartNode].fallback
          /\ Unwrap(ret.fragment) = StartNode
    /\ (Started /\ pc = "done" /\ ~ChainIsAcyclic(StartNode)) =>
          IF ChainCoversPattern THEN ret = RetOk ELSE ReturnedCircular

\* A node whose href names itself was merged with itself and then
\* rejected.
C17_Witness ==
    /\ ChainIsSelfReference
    /\ ReturnedCircular
    /\ stack = <<StartNode>>
    /\ ret.fragment = Some(StartNode)
    /\ \E f \in Fields : result.common[f] # None

(***************************************************************************)
(* C18.  The visited stack and the running result.                         *)
(***************************************************************************)
\* The stack is the nodes that the chain of the starting node acquires, in
\* that order, without a repetition; while nothing but merges has happened
\* it has one node for each loop body.
StackIsMergedNodes ==
    (Started /\ pc \in {"loop", "done"}) =>
        LET chain == FallbackChain(StartNode) IN
        /\ \A i, j \in 1..Len(stack) : i # j => stack[i] # stack[j]
        /\ Len(stack) + 1 <= Len(chain)
        /\ \A i \in 1..Len(stack) : stack[i] = chain[i + 1]
        /\ last \in {"begin", "fallback"} => Len(stack) = iters

\* A loop body pushes a node exactly when it merges that node into the
\* result, and it leaves every attribute that is set as it is.
LoopBodyKeepsSetFields ==
    pc = "loop" =>
        /\ \A f \in Fields :
              result.common[f] # None => result'.common[f] = result.common[f]
        /\ stack' # stack =>
              /\ Len(stack') = Len(stack) + 1
              /\ SubSeq(stack', 1, Len(stack)) = stack
              /\ result' = resolve_from_fallback(
                               result, patterns'[stack'[Len(stack')]])
        /\ (last' = "fallback" /\ iters' # iters) => stack' # stack

\* C18: in every state of the loop of resolve() the stack holds no node
\* twice and holds exactly the nodes merged so far, in merge order; and an
\* attribute of the running result that is set keeps its value in every
\* later loop body.
C18_StackAndResultMonotone ==
    []StackIsMergedNodes /\ [][LoopBodyKeepsSetFields]_vars

\* Two nodes were merged into a result whose starting node set an attribute
\* that the first merged node sets to another value; the result still has
\* the starting node's value.
C18_Witness ==
    /\ pc = "loop"
    /\ last = "fallback"
    /\ Len(stack) = 2
    /\ stack[1] # stack[2]
    /\ \E f \in Fields :
          /\ patterns[StartNode].common[f] # None
          /\ patterns[stack[1]].common[f] # None
          /\ patterns[stack[1]].common[f] # patterns[StartNode].common[f]
          /\ result.common[f] = patterns[StartNode].common[f]

====
